---- MODULE Spec2Model ----
(***************************************************************************)
(* Model of main.py: the reconciliation of the VizPortal ("rich")          *)
(* projects with the REST ("authoritative") projects and the users.        *)
(*                                                                         *)
(* A Python dict is a record; a key the dict does not hold has the value   *)
(* NoKey (string fields), NoLevel (projectLevel) or NoParent               *)
(* (parentProject).  A reference to an element of vpc_projects is its      *)
(* index in the list, so that embedding by reference and embedding a copy  *)
(* are different values; the Python None is index 0 for a lookup result    *)
(* and NoneRef for a stored parentProject.                                 *)
(***************************************************************************)
EXTENDS Integers, Sequences, FiniteSets, TLC

VARIABLES
    rest_projects,  \* main: list of TSC.ProjectItem (id, content_permissions)
    vpc_users,      \* main: list of user dicts (id, displayName, username)
    vpc_projects,   \* main: list of project dicts, mutated in place
    pc,             \* position of main
    idx,            \* index of the loop variable vpc_project of main
    walk_cur,       \* index of the local vpc_project of get_project_level_and_root
    project_level,  \* loop counter of get_project_level_and_root
    exc,            \* the exception main ended with
    output_file,    \* output/projects.json of this run: unopened, partial, complete
    output,         \* the collection json.dump wrote
    prev_output     \* the collection the previous run wrote

vars == <<rest_projects, vpc_users, vpc_projects, pc, idx, walk_cur,
          project_level, exc, output_file, output, prev_output>>

----------------------------------------------------------------------------
(* Bounds of the fixtures *)

MaxProjects == 3
MaxWalk == MaxProjects + 2

(* Values *)

NoKey == "<no key>"
PyNone == "<None>"
NoLevel == 0 - 1
NoParent == 0
NoneRef == 0 - 1
NoExc == [type |-> "none", line |-> 0, arg |-> NoKey]

site_name == "site"
ProjId == <<"p1", "p2", "p3", "p4", "p5", "p6">>
Luid == <<"L1", "L2", "L3", "L4", "L5", "L6">>
DanglingId == "p9"
UnknownUser == "u9"
Users == << [id |-> "u1", displayName |-> "Alice", username |-> "alice@x"],
            [id |-> "u2", displayName |-> "Bob", username |-> "bob@x"] >>
Permissions == <<"ManagedByOwner", "LockedToProject">>

----------------------------------------------------------------------------
(* Identity lookups *)

\* str(x): a string is itself, None is the string "None"
Str(x) == IF x = PyNone THEN "None" ELSE x

\* next((... for ... if ...), None): the first of the matching indices, 0 for None
FirstIndex(matching) ==
    IF matching = {} THEN 0
    ELSE CHOOSE i \in matching : \A j \in matching : i <= j

lookup_user_by_id(users, user_id) ==
    FirstIndex({i \in 1..Len(users) : users[i].id = Str(user_id)})

lookup_project_by_id(items, item_id) ==
    FirstIndex({i \in 1..Len(items) : items[i].id = item_id})

lookup_parent_project(projects, parent_id) ==
    FirstIndex({i \in 1..Len(projects) : projects[i].id = Str(parent_id)})

----------------------------------------------------------------------------
(* Fixtures *)

RichProject(i, top, parent, owner) ==
    [id |-> ProjId[i], luid |-> Luid[i], parentProjectId |-> parent,
     topLevelProject |-> top, ownerId |-> owner,
     siteName |-> NoKey, contentPermissions |-> NoKey, ownerName |-> NoKey,
     ownerDSID |-> NoKey, projectLevel |-> NoLevel, rootProjectId |-> NoKey,
     parentProject |-> NoParent]

RestProject(i) ==
    [id |-> Luid[i], content_permissions |-> Permissions[1 + (i % 2)]]

ParentIds(n) == {NoKey, PyNone, DanglingId} \cup {ProjId[i] : i \in 1..n}

\* the state of main at line 117: n projects, the REST projects of those in
\* `missing` left out, the owners of those in `unknown` not among the users
Fixture(n, top, par, missing, unknown) ==
    /\ rest_projects =
           SelectSeq([i \in 1..n |-> RestProject(i)],
                     LAMBDA r : \A m \in missing : r.id # Luid[m])
    /\ vpc_users = Users
    /\ vpc_projects =
           [i \in 1..n |->
               RichProject(i, top[i], par[i],
                           IF i \in unknown THEN UnknownUser
                           ELSE Users[1 + (i % 2)].id)]
    /\ pc = "pass1"
    /\ idx = 1
    /\ walk_cur = 0
    /\ project_level = 0
    /\ exc = NoExc
    /\ output_file = "unopened"
    /\ output = << >>
    /\ prev_output = << >>

\* every shape of the hierarchy, the three sources consistent
Init ==
    \E n \in 1..MaxProjects :
    \E top \in [1..n -> BOOLEAN], par \in [1..n -> ParentIds(n)] :
        Fixture(n, top, par, {}, {})

\* every inconsistency of the three sources; a project is top-level exactly
\* when it has no parent-identifier, and a parent-identifier names a project
InitFaults ==
    \E n \in 1..MaxProjects :
    \E par \in [1..n -> ParentIds(n) \ {PyNone, DanglingId}] :
    \E missing \in SUBSET (1..n), unknown \in SUBSET (1..n) :
        Fixture(n, [i \in 1..n |-> par[i] = NoKey], par, missing, unknown)

----------------------------------------------------------------------------
(* main, pass 1 *)

\* lines 119-132 for one project: site name, REST project, permissions, owner.
\* The project as the body leaves it, and the exception it raised.
enrich_skip_missing(p, rest, users) ==
    LET p1 == [p EXCEPT !.siteName = site_name]
        r == lookup_project_by_id(rest, p.luid)
        p2 == IF r = 0 THEN p1
              ELSE [p1 EXCEPT !.contentPermissions = rest[r].content_permissions]
        u == lookup_user_by_id(users, p.ownerId)
    IN  IF u = 0
        THEN [project |-> p2, exc |-> [type |-> "TypeError", line |-> 131, arg |-> NoKey]]
        ELSE [project |-> [p2 EXCEPT !.ownerName = users[u].displayName,
                                     !.ownerDSID = users[u].username],
              exc |-> NoExc]

enrich_default_owner(p, rest, users) ==
    LET p1 == [p EXCEPT !.siteName = site_name]
        r == lookup_project_by_id(rest, p.luid)
        p2 == [p1 EXCEPT !.contentPermissions = rest[r].content_permissions]
        u == lookup_user_by_id(users, p.ownerId)
    IN  IF r = 0
        THEN [project |-> p1, exc |-> [type |-> "Exception", line |-> 124, arg |-> p.luid]]
        ELSE IF u = 0
        THEN [project |-> [p2 EXCEPT !.ownerName = "", !.ownerDSID = ""], exc |-> NoExc]
        ELSE [project |-> [p2 EXCEPT !.ownerName = users[u].displayName,
                                     !.ownerDSID = users[u].username],
              exc |-> NoExc]

enrich(p, rest, users) ==
    LET p1 == [p EXCEPT !.siteName = site_name]
        r == lookup_project_by_id(rest, p.luid)
        p2 == [p1 EXCEPT !.contentPermissions = rest[r].content_permissions]
        u == lookup_user_by_id(users, p.ownerId)
        p3 == [p2 EXCEPT !.ownerName = users[u].displayName,
                         !.ownerDSID = users[u].username]
    IN  IF r = 0
        THEN [project |-> p1, exc |-> [type |-> "Exception", line |-> 124, arg |-> p.luid]]
        ELSE IF u = 0
        THEN [project |-> p2, exc |-> [type |-> "TypeError", line |-> 131, arg |-> NoKey]]
        ELSE [project |-> p3, exc |-> NoExc]

\* lines 117-132: the body of the first loop up to the call of the walk
Pass1Enrich ==
    /\ pc = "pass1"
    /\ LET e == enrich(vpc_projects[idx], rest_projects, vpc_users)
       IN  /\ vpc_projects' = [vpc_projects EXCEPT ![idx] = e.project]
           /\ exc' = e.exc
           /\ pc' = IF e.exc = NoExc THEN "call" ELSE "raised"
    /\ UNCHANGED <<rest_projects, vpc_users, idx, walk_cur, project_level,
                   output_file, output, prev_output>>

\* the result of the walk of a top-level project, line 78
TopLevelResult_id(p) == <<0, p.id>>

TopLevelResult(p) == <<0, p.luid>>

\* lines 138-139
SetLevelAndRoot_accumulate(p, level, root) ==
    [p EXCEPT !.projectLevel = IF @ = NoLevel THEN level ELSE @ + level,
              !.rootProjectId = root]

SetLevelAndRoot(p, level, root) ==
    [p EXCEPT !.projectLevel = level, !.rootProjectId = root]

\* get_project_level_and_root returns: lines 135-139, and the for loop goes on
Return(result) ==
    /\ vpc_projects' =
           [vpc_projects EXCEPT ![idx] = SetLevelAndRoot(@, result[1], result[2])]
    /\ IF idx < Len(vpc_projects)
       THEN /\ pc' = "pass1"
            /\ idx' = idx + 1
       ELSE /\ pc' = "pass2"
            /\ idx' = 1
    /\ walk_cur' = 0
    /\ project_level' = 0
    /\ exc' = exc

\* lines 77-80: the top-level test, or the walk starts at level 1
WalkEnter ==
    /\ pc = "call"
    /\ IF vpc_projects[idx].topLevelProject
       THEN Return(TopLevelResult(vpc_projects[idx]))
       ELSE /\ pc' = "walk"
            /\ walk_cur' = idx
            /\ project_level' = 1
            /\ UNCHANGED <<vpc_projects, idx, exc>>
    /\ UNCHANGED <<rest_projects, vpc_users, output_file, output, prev_output>>

\* lines 81-84: one iteration of for project_level in count(1), from the
\* project at index cur: the exception raised, or the value returned, or the
\* project the walk goes on from.
walk_iteration_orphan(projects, cur, level) ==
    LET parent_project == lookup_parent_project(projects, projects[cur].parentProjectId)
    IN  IF projects[cur].parentProjectId = NoKey \/ parent_project = 0
        THEN [exc |-> NoExc, returns |-> TRUE,
              result |-> <<level - 1, projects[cur].luid>>, next |-> 0]
        ELSE IF projects[parent_project].topLevelProject
        THEN [exc |-> NoExc, returns |-> TRUE,
              result |-> <<level, projects[parent_project].luid>>, next |-> 0]
        ELSE [exc |-> NoExc, returns |-> FALSE, result |-> <<0, NoKey>>,
              next |-> parent_project]

walk_iteration_id(projects, cur, level) ==
    LET parent_project == lookup_parent_project(projects, projects[cur].parentProjectId)
    IN  IF projects[cur].parentProjectId = NoKey
        THEN [exc |-> [type |-> "KeyError", line |-> 81, arg |-> "parentProjectId"],
              returns |-> FALSE, result |-> <<0, NoKey>>, next |-> 0]
        ELSE IF parent_project = 0
        THEN [exc |-> [type |-> "TypeError", line |-> 82, arg |-> NoKey],
              returns |-> FALSE, result |-> <<0, NoKey>>, next |-> 0]
        ELSE IF projects[parent_project].topLevelProject
        THEN [exc |-> NoExc, returns |-> TRUE,
              result |-> <<level, projects[parent_project].id>>, next |-> 0]
        ELSE [exc |-> NoExc, returns |-> FALSE, result |-> <<0, NoKey>>,
              next |-> parent_project]

walk_iteration(projects, cur, level) ==
    LET parent_project == lookup_parent_project(projects, projects[cur].parentProjectId)
    IN  IF projects[cur].parentProjectId = NoKey
        THEN [exc |-> [type |-> "KeyError", line |-> 81, arg |-> "parentProjectId"],
              returns |-> FALSE, result |-> <<0, NoKey>>, next |-> 0]
        ELSE IF parent_project = 0
        THEN [exc |-> [type |-> "TypeError", line |-> 82, arg |-> NoKey],
              returns |-> FALSE, result |-> <<0, NoKey>>, next |-> 0]
        ELSE IF projects[parent_project].topLevelProject
        THEN [exc |-> NoExc, returns |-> TRUE,
              result |-> <<level, projects[parent_project].luid>>, next |-> 0]
        ELSE [exc |-> NoExc, returns |-> FALSE, result |-> <<0, NoKey>>,
              next |-> parent_project]

\* the loop of get_project_level_and_root, one iteration a step
WalkStep ==
    /\ pc = "walk"
    /\ project_level <= MaxWalk
    /\ LET w == walk_iteration(vpc_projects, walk_cur, project_level)
       IN  IF w.exc # NoExc
           THEN /\ pc' = "raised"
                /\ exc' = w.exc
                /\ UNCHANGED <<vpc_projects, idx, walk_cur, project_level>>
           ELSE IF w.returns
           THEN Return(w.result)
           ELSE /\ walk_cur' = w.next
                /\ project_level' = project_level + 1
                /\ UNCHANGED <<vpc_projects, idx, pc, exc>>
    /\ UNCHANGED <<rest_projects, vpc_users, output_file, output, prev_output>>

----------------------------------------------------------------------------
(* main, pass 2 and the output *)

\* line 146: vpc_project.get("parentProjectId"), None when the key is missing
get_parentProjectId(p) ==
    IF p.parentProjectId = NoKey THEN PyNone ELSE p.parentProjectId

\* lines 146-152: the parent, when the identifier is not None, embedded by reference
EmbedParent_pop(projects, p) ==
    IF get_parentProjectId(p) # PyNone
    THEN LET q == lookup_parent_project(projects, p.parentProjectId)
         IN  [p EXCEPT !.parentProject = IF q = 0 THEN NoneRef ELSE q,
                       !.parentProjectId = NoKey]
    ELSE p

EmbedParent(projects, p) ==
    IF get_parentProjectId(p) # PyNone
    THEN LET q == lookup_parent_project(projects, p.parentProjectId)
         IN  [p EXCEPT !.parentProject = IF q = 0 THEN NoneRef ELSE q]
    ELSE p

Pass2Step ==
    /\ pc = "pass2"
    /\ vpc_projects' =
           [vpc_projects EXCEPT ![idx] = EmbedParent(vpc_projects, @)]
    /\ IF idx < Len(vpc_projects)
       THEN /\ idx' = idx + 1
            /\ pc' = pc
       ELSE /\ idx' = 1
            /\ pc' = "write"
    /\ UNCHANGED <<rest_projects, vpc_users, walk_cur, project_level, exc,
                   output_file, output, prev_output>>

\* the record reached from project i by k embedded parents, 0 when there is none
RECURSIVE Embedded(_, _, _)
Embedded(projects, i, k) ==
    IF k = 0 \/ i <= 0 THEN i
    ELSE Embedded(projects, projects[i].parentProject, k - 1)

\* json.dump meets a dict that is being encoded already
Circular(projects) ==
    \E i \in 1..Len(projects) : \E k \in 1..Len(projects) :
        Embedded(projects, i, k) = i

\* lines 155-156
WriteOutput ==
    /\ pc = "write"
    /\ IF Circular(vpc_projects)
       THEN /\ pc' = "raised"
            /\ exc' = [type |-> "ValueError", line |-> 156,
                        arg |-> "Circular reference detected"]
            /\ output_file' = "partial"
            /\ output' = output
       ELSE /\ pc' = "done"
            /\ exc' = exc
            /\ output_file' = "complete"
            /\ output' = vpc_projects
    /\ UNCHANGED <<rest_projects, vpc_users, vpc_projects, idx, walk_cur,
                   project_level, prev_output>>

\* main is run again on the collections of a run that completed
Rerun ==
    /\ pc = "done"
    /\ pc' = "pass1"
    /\ idx' = 1
    /\ prev_output' = output
    /\ output_file' = "unopened"
    /\ UNCHANGED <<rest_projects, vpc_users, vpc_projects, walk_cur,
                   project_level, exc, output>>

Next ==
    \/ Pass1Enrich
    \/ WalkEnter
    \/ WalkStep
    \/ Pass2Step
    \/ WriteOutput
    \/ Rerun

Spec == Init /\ [][Next]_vars

SpecFaults == InitFaults /\ [][Next]_vars

----------------------------------------------------------------------------
(* Properties *)

Projects == 1..Len(vpc_projects)

\* no field of the enrichment is set
Untouched(p) ==
    /\ p.siteName = NoKey /\ p.contentPermissions = NoKey
    /\ p.ownerName = NoKey /\ p.ownerDSID = NoKey
    /\ p.projectLevel = NoLevel /\ p.rootProjectId = NoKey
    /\ p.parentProject = NoParent

\* every field pass 1 sets is set
Pass1Complete(p) ==
    /\ p.siteName # NoKey /\ p.contentPermissions # NoKey
    /\ p.ownerName # NoKey /\ p.ownerDSID # NoKey
    /\ p.projectLevel # NoLevel /\ p.rootProjectId # NoKey

\* an aborted run: no later project was processed, pass 2 did not start,
\* and the output file was not opened
AbortedAt(i) ==
    /\ \A j \in Projects : j > i => Untouched(vpc_projects[j])
    /\ \A j \in Projects : vpc_projects[j].parentProject = NoParent
    /\ output_file = "unopened"
    /\ output = << >>

\* the parent-identifier of project i is absent: no key, or None
NoParentId(i) == vpc_projects[i].parentProjectId \in {NoKey, PyNone}

\* the parent of project i, 0 when its parent-identifier is absent or dangling
ParentOf(i) ==
    IF NoParentId(i) THEN 0
    ELSE lookup_parent_project(vpc_projects, vpc_projects[i].parentProjectId)

\* the project k parent links above project i, 0 when the chain ends before
RECURSIVE Ancestor(_, _)
Ancestor(i, k) ==
    IF k = 0 \/ i = 0 THEN i ELSE Ancestor(ParentOf(i), k - 1)

\* C1: the hierarchy walk ends within a number of iterations bounded by the
\* size of the collection, also when the parent chain has a cycle.
C1_WalkBounded ==
    pc = "walk" => project_level <= Len(vpc_projects)

\* C2: when the walk of a non-top-level project meets a parent-identifier that
\* is absent or resolves to no project, the walk ends in an error, the run
\* aborts (it takes no further step and opens no output), and the project
\* gets no depth and no top-level ancestor.
C2_DanglingParentAborts ==
    /\ [][(pc = "walk" /\ ParentOf(walk_cur) = 0)
            => /\ pc' = "raised"
               /\ exc'.line \in {81, 82}
               /\ vpc_projects' = vpc_projects]_vars
    /\ [][pc # "raised"]_vars
    /\ []((pc = "raised" /\ exc.line \in {81, 82})
            => /\ vpc_projects[idx].projectLevel = NoLevel
               /\ vpc_projects[idx].rootProjectId = NoKey
               /\ AbortedAt(idx))

C2_Witness ==
    /\ pc = "raised" /\ exc.line = 82
    /\ walk_cur # idx
    /\ vpc_projects[idx].projectLevel = NoLevel

\* C3: in pass 1 a project whose luid matches no REST project aborts the run,
\* at the first such project in the order of the collection, with an error
\* naming the luid; no later project is processed, pass 2 does not start and
\* no output is written.
C3_MissingRestProjectAborts ==
    /\ [][(pc = "pass1"
            /\ lookup_project_by_id(rest_projects, vpc_projects[idx].luid) = 0)
            => /\ pc' = "raised"
               /\ exc' = [type |-> "Exception", line |-> 124,
                          arg |-> vpc_projects[idx].luid]]_vars
    /\ [][pc # "raised"]_vars
    /\ []((pc = "raised" /\ exc.line = 124)
            => /\ lookup_project_by_id(rest_projects, vpc_projects[idx].luid) = 0
               /\ \A j \in 1..(idx - 1) :
                      lookup_project_by_id(rest_projects, vpc_projects[j].luid) # 0
               /\ AbortedAt(idx))

C3_Witness ==
    /\ pc = "raised" /\ exc.line = 124 /\ exc.arg = Luid[2]
    /\ idx = 2 /\ Len(vpc_projects) = 3
    /\ Len(rest_projects) = 1
    /\ Pass1Complete(vpc_projects[1])
    /\ Untouched(vpc_projects[3])

\* C4: in pass 1 a project whose owner-identifier matches no user aborts the
\* run: its owner name and owner secondary identifier are not set, no later
\* project is processed and no output is written.
C4_UnknownOwnerAborts ==
    /\ [][(pc = "pass1"
            /\ lookup_user_by_id(vpc_users, vpc_projects[idx].ownerId) = 0)
            => /\ pc' = "raised"
               /\ exc'.line \in {124, 131}
               /\ (lookup_project_by_id(rest_projects, vpc_projects[idx].luid) # 0
                     => exc'.line = 131)]_vars
    /\ [][pc # "raised"]_vars
    /\ []((pc = "raised" /\ exc.line = 131)
            => /\ lookup_user_by_id(vpc_users, vpc_projects[idx].ownerId) = 0
               /\ vpc_projects[idx].ownerName = NoKey
               /\ vpc_projects[idx].ownerDSID = NoKey
               /\ AbortedAt(idx))

C4_Witness ==
    /\ pc = "raised" /\ exc.line = 131
    /\ idx = 2 /\ Len(vpc_projects) = 3
    /\ vpc_projects[2].ownerId = UnknownUser
    /\ Pass1Complete(vpc_projects[1])
    /\ Untouched(vpc_projects[3])

\* C5: a project with a parent-identifier that resolves to no project aborts
\* the run: the output is never reached, and no project holds None as its
\* embedded parent.
C5_DanglingParentIsFatal ==
    \A i \in Projects :
        (~NoParentId(i) /\ ParentOf(i) = 0)
            => /\ pc \notin {"write", "done"}
               /\ output_file = "unopened"
               /\ vpc_projects[i].parentProject # NoneRef

\* C6: the walk of a project whose top-level flag is set returns level 0 and
\* the project's own luid, whatever its parent-identifier is, without a walk
\* and without an error.
C6_TopLevelIdentity ==
    [][(pc = "call" /\ vpc_projects[idx].topLevelProject)
         => /\ vpc_projects'[idx].projectLevel = 0
            /\ vpc_projects'[idx].rootProjectId = vpc_projects[idx].luid
            /\ pc' \in {"pass1", "pass2"}
            /\ exc' = NoExc]_vars

C6_Witness ==
    \E i \in Projects :
        /\ vpc_projects[i].topLevelProject
        /\ vpc_projects[i].parentProjectId = DanglingId
        /\ vpc_projects[i].projectLevel = 0
        /\ vpc_projects[i].rootProjectId = vpc_projects[i].luid
        /\ \E j \in Projects :
               /\ vpc_projects[j].topLevelProject
               /\ vpc_projects[j].parentProjectId = vpc_projects[j].id
               /\ vpc_projects[j].projectLevel = 0

\* C7: after a run that completed, a non-top-level project is one level below
\* its parent and has the parent's top-level ancestor; its level is the
\* number of parent links to the nearest top-level ancestor, and its
\* top-level ancestor is the luid of that project.
C7_DepthMonotonicity ==
    pc = "done" =>
        \A i \in Projects :
            /\ vpc_projects[i].topLevelProject
                 => /\ vpc_projects[i].projectLevel = 0
                    /\ vpc_projects[i].rootProjectId = vpc_projects[i].luid
            /\ ~vpc_projects[i].topLevelProject
                 => LET q == ParentOf(i)
                        k == vpc_projects[i].projectLevel
                    IN  /\ q # 0
                        /\ k = vpc_projects[q].projectLevel + 1
                        /\ vpc_projects[i].rootProjectId = vpc_projects[q].rootProjectId
                        /\ \A m \in 0..(k - 1) :
                               /\ Ancestor(i, m) # 0
                               /\ ~vpc_projects[Ancestor(i, m)].topLevelProject
                        /\ Ancestor(i, k) # 0
                        /\ vpc_projects[Ancestor(i, k)].topLevelProject
                        /\ vpc_projects[i].rootProjectId = vpc_projects[Ancestor(i, k)].luid

C7_Witness ==
    /\ pc = "done"
    /\ Len(vpc_projects) = 3
    /\ vpc_projects[1].projectLevel = 2
    /\ vpc_projects[2].projectLevel = 1
    /\ vpc_projects[3].projectLevel = 0
    /\ vpc_projects[1].rootProjectId = Luid[3]

\* C8: after a run that completed, every project with a parent-identifier
\* holds as embedded parent a reference to the parent's entry in the
\* collection, which carries every field of pass 1; a project without a
\* parent-identifier holds no embedded parent.  Pass 2 starts when pass 1 has
\* completed for every project.
C8_ParentEmbeddedByReference ==
    /\ pc \in {"pass2", "write", "done"}
         => \A i \in Projects : Pass1Complete(vpc_projects[i])
    /\ pc = "done"
         => \A i \in Projects :
                IF NoParentId(i)
                THEN vpc_projects[i].parentProject = NoParent
                ELSE /\ vpc_projects[i].parentProject \in Projects
                     /\ vpc_projects[i].parentProject = ParentOf(i)
                     /\ Pass1Complete(vpc_projects[vpc_projects[i].parentProject])

\* C9: a second run on the collection the first run enriched writes the
\* output the first run wrote.
C9_Idempotent ==
    (pc = "done" /\ prev_output # << >>) => output = prev_output

C9_Witness ==
    /\ pc = "done"
    /\ prev_output # << >>
    /\ output_file = "complete"
    /\ \E i \in Projects :
           /\ vpc_projects[i].projectLevel = 2
           /\ vpc_projects[i].parentProject \in Projects

\* C10: a step writes only enrichment fields of the project being processed:
\* the REST projects and the users are unchanged, the collection keeps its
\* length and order, and every project keeps its id, luid, parent-identifier,
\* top-level flag and owner-identifier.
C10_Frame ==
    [][/\ rest_projects' = rest_projects
       /\ vpc_users' = vpc_users
       /\ Len(vpc_projects') = Len(vpc_projects)
       /\ \A i \in Projects :
              /\ vpc_projects'[i].id = vpc_projects[i].id
              /\ vpc_projects'[i].luid = vpc_projects[i].luid
              /\ vpc_projects'[i].parentProjectId = vpc_projects[i].parentProjectId
              /\ vpc_projects'[i].topLevelProject = vpc_projects[i].topLevelProject
              /\ vpc_projects'[i].ownerId = vpc_projects[i].ownerId
              /\ i # idx => vpc_projects'[i] = vpc_projects[i]]_vars

C10_Witness ==
    /\ pc = "done"
    /\ Len(vpc_projects) = 3
    /\ \E i \in Projects : vpc_projects[i].parentProject \in Projects
    /\ \E i \in Projects : vpc_projects[i].projectLevel = 2

====
